---------------------------- MODULE Spec2Model ----------------------------
(***************************************************************************)
(* A model of simple-query-engine: the Value type (src/src/value.rs), the  *)
(* table loader and the column indices (src/src/table.rs) and the query    *)
(* engine (src/src/query_engine.rs).                                       *)
(*                                                                         *)
(* Strings are sequences of ASCII codes ("a" is <<97>>, "10" is <<49,48>>),*)
(* so that the byte-wise comparison of Rust's String can be computed.      *)
(* A u64 is represented by its canonical decimal digits (no leading zero,  *)
(* at most u64::MAX): the program only parses, compares, copies and prints *)
(* integers, it never does arithmetic on them, and TLC's own integers are  *)
(* narrower than 64 bits.                                                  *)
(***************************************************************************)
EXTENDS Integers, Sequences, FiniteSets, TLC

VARIABLES
    pc,         \* position of main's run(): "start", "loaded", "failed", "ready", "answered", "read", "exited", "panicked"; "parse", "compare", "query" in the specifications of the pure functions
    reader,     \* the csv::Reader's content: [headers, records], raw texts
    table,      \* the loaded Table [columns, rows], NoTable before the load
    indices,    \* TableIndices.column_indices: column name -> Index, a function on the indexed names
    query,      \* the Query handed to execute, NoQuery when none
    outcome,    \* what execute returned (or its panic), NoOutcome when none
    text,       \* the argument of Value::parse_value in the Value specification
    parsed,     \* what Value::parse_value returned
    operands,   \* the Values handed to Value's cmp in the ordering specification
    compared,   \* what cmp returned for the pairs of operands
    line,       \* the input line of the session, as its whitespace-separated tokens
    query_result, \* what Query::parse returned for line
    served,     \* number of queries the session has handed to execute
    report      \* what the session wrote for the last line: "rows", "Query execution error", "Query parsing error", "" when nothing

vars == <<pc, reader, table, indices, query, outcome, text, parsed,
          operands, compared, line, query_result, served, report>>

--------------------------------------------------------------------------
(* Bounds of the model.                                                    *)

MaxRows == 3

MaxRecords == 2

MaxProjection == 2

MaxTextLen == 3

MaxOperandLen == 2

MaxServed == 2

--------------------------------------------------------------------------
(* Result<T, Error>.                                                       *)

Ok(v) == [kind |-> "Ok", value |-> v]

Err(e) == [kind |-> "Err", error |-> e]

--------------------------------------------------------------------------
(* Strings and their ordering.                                             *)

\* ASCII codes of the characters the model's texts are made of: 0 1 9 a
Alphabet == {48, 49, 57, 97}

\* <str as Ord>::cmp: lexicographic comparison of the bytes
RECURSIVE str_cmp(_, _)
str_cmp(x, y) ==
    IF x = <<>> /\ y = <<>> THEN "Equal"
    ELSE IF x = <<>> THEN "Less"
    ELSE IF y = <<>> THEN "Greater"
    ELSE IF Head(x) < Head(y) THEN "Less"
    ELSE IF Head(x) > Head(y) THEN "Greater"
    ELSE str_cmp(Tail(x), Tail(y))

\* char::is_digit(10)
is_digit(c) == c \in 48..57

\* value.chars().all(|char| char.is_digit(10)): true of the empty string
all_digits(s) == \A i \in 1..Len(s) : is_digit(s[i])

\* u64::MAX, 18446744073709551615, as decimal digits
U64MaxDigits ==
    <<49, 56, 52, 52, 54, 55, 52, 52, 48, 55, 51, 55, 48, 57, 53, 53, 49, 54, 49, 53>>

\* the digits of a decimal literal without its leading zeros ("007" -> "7", "00" -> "0")
RECURSIVE strip_leading_zeros(_)
strip_leading_zeros(s) ==
    IF Len(s) > 1 /\ Head(s) = 48 THEN strip_leading_zeros(Tail(s)) ELSE s

\* u64::cmp on canonical decimal digits: the longer number is the greater,
\* numbers of the same length compare digit by digit
u64_cmp(x, y) ==
    IF Len(x) < Len(y) THEN "Less"
    ELSE IF Len(x) > Len(y) THEN "Greater"
    ELSE str_cmp(x, y)

\* str::parse::<u64>() on a text of decimal digits: Empty on the empty text,
\* PosOverflow when the number exceeds u64::MAX, leading zeros are accepted
u64_from_str(s) ==
    IF s = <<>> THEN Err("ParseIntError: cannot parse integer from empty string")
    ELSE IF u64_cmp(strip_leading_zeros(s), U64MaxDigits) = "Greater"
         THEN Err("ParseIntError: number too large to fit in target type")
    ELSE Ok(strip_leading_zeros(s))

--------------------------------------------------------------------------
(* Value (src/src/value.rs).                                               *)

Integer(n) == [tag |-> "Integer", v |-> n]

Text(s) == [tag |-> "Text", v |-> s]

\* parse_value as it would be if a literal with a leading zero were kept as
\* Text ("007" is not a number)
parse_value_leading_zero_as_text(value) ==
    IF all_digits(value) /\ ~(Len(value) > 1 /\ Head(value) = 48)
    THEN LET n == u64_from_str(value)
         IN  IF n.kind = "Ok" THEN Ok(Integer(n.value)) ELSE n
    ELSE Ok(Text(value))

\* Value::parse_value
parse_value(value) ==
    IF all_digits(value)
    THEN LET n == u64_from_str(value)
         IN  IF n.kind = "Ok" THEN Ok(Integer(n.value)) ELSE n
    ELSE Ok(Text(value))

\* <str as Debug>::fmt escapes the double quote and the backslash; the other
\* characters of the model's alphabet are printed as they are
RECURSIVE escape_debug(_)
escape_debug(s) ==
    IF s = <<>> THEN <<>>
    ELSE (IF Head(s) \in {34, 92} THEN <<92, Head(s)>> ELSE <<Head(s)>>)
         \o escape_debug(Tail(s))

\* format!("{:?}", value) of the derived Debug: Integer(5), Text("abc")
debug_fmt(value) ==
    IF value.tag = "Integer"
    THEN <<73, 110, 116, 101, 103, 101, 114, 40>> \o value.v \o <<41>>
    ELSE <<84, 101, 120, 116, 40, 34>> \o escape_debug(value.v) \o <<34, 41>>

\* cmp as it would be if Integers were compared by their digits as texts
cmp_integers_as_text(x, y) ==
    IF x.tag = "Integer" /\ y.tag = "Integer" THEN str_cmp(x.v, y.v)
    ELSE IF x.tag = "Text" /\ y.tag = "Text" THEN str_cmp(x.v, y.v)
    ELSE str_cmp(debug_fmt(x), debug_fmt(y))

\* <Value as Ord>::cmp
cmp(x, y) ==
    IF x.tag = "Integer" /\ y.tag = "Integer" THEN u64_cmp(x.v, y.v)
    ELSE IF x.tag = "Text" /\ y.tag = "Text" THEN str_cmp(x.v, y.v)
    ELSE str_cmp(debug_fmt(x), debug_fmt(y))

--------------------------------------------------------------------------
(* Table (src/src/table.rs): loading from a csv::Reader.                   *)

\* records() of a reader built with flexible(true): every record is yielded,
\* whatever its field count
records_flexible(r) == [i \in 1..Len(r.records) |-> Ok(r.records[i])]

\* csv::Reader::records() of a reader built with the defaults (has_headers,
\* not flexible): the header is the first record read, and a record whose
\* field count differs from it is yielded as an UnequalLengths error
records(r) ==
    [i \in 1..Len(r.records) |->
        IF Len(r.records[i]) = Len(r.headers)
        THEN Ok(r.records[i])
        ELSE Err([type |-> "csv::UnequalLengths", record |-> i,
                  expected_len |-> Len(r.headers), len |-> Len(r.records[i])])]

\* the loop over a record's columns in parse_rows: the fields parsed so far,
\* or the first parse error
RECURSIVE parse_fields(_)
parse_fields(record) ==
    IF record = <<>> THEN Ok(<<>>)
    ELSE LET field == parse_value(Head(record))
         IN  IF field.kind = "Err" THEN field
             ELSE LET rest == parse_fields(Tail(record))
                  IN  IF rest.kind = "Err" THEN rest
                      ELSE Ok(<<field.value>> \o rest.value)

\* the loop over reader.records() in parse_rows, from the i-th item on
RECURSIVE parse_rows_from(_, _)
parse_rows_from(items, i) ==
    IF i > Len(items) THEN Ok(<<>>)
    ELSE IF items[i].kind = "Err" THEN items[i]
    ELSE LET fields == parse_fields(items[i].value)
         IN  IF fields.kind = "Err" THEN fields
             ELSE LET rest == parse_rows_from(items, i + 1)
                  IN  IF rest.kind = "Err" THEN rest
                      ELSE Ok(<<[fields |-> fields.value]>> \o rest.value)

\* Table::parse_rows
parse_rows(r) == parse_rows_from(records(r), 1)

\* a column typed by whether some row holds an Integer in it
infer_column_type_any(rows, index) ==
    IF \E i \in 1..Len(rows) : rows[i].fields[index].tag = "Integer"
    THEN "Integer" ELSE "Text"

\* the column type that parse_columns infers for the header at position index
\* (1-based): Integer when every row holds an Integer there
infer_column_type(rows, index) ==
    IF \A i \in 1..Len(rows) : rows[i].fields[index].tag = "Integer"
    THEN "Integer" ELSE "Text"

\* Table::parse_columns: the first row (header by header, row by row) that has
\* no field at a header's position is an error
parse_columns(r, rows) ==
    LET headers == r.headers
        short == {<<h, i>> \in (1..Len(headers)) \X (1..Len(rows)) : Len(rows[i].fields) < h}
    IN  IF short # {}
        THEN LET first == CHOOSE p \in short :
                            \A q \in short : p[1] < q[1] \/ (p[1] = q[1] /\ p[2] <= q[2])
             IN  Err([type |-> "Row does not have column", row |-> first[2],
                      column |-> headers[first[1]]])
        ELSE Ok([h \in 1..Len(headers) |->
                    [name |-> headers[h], column_type |-> infer_column_type(rows, h)]])

\* Table::load_from
load_from(r) ==
    LET rows == parse_rows(r)
    IN  IF rows.kind = "Err" THEN rows
        ELSE LET columns == parse_columns(r, rows.value)
             IN  IF columns.kind = "Err" THEN columns
                 ELSE Ok([columns |-> columns.value, rows |-> rows.value])

--------------------------------------------------------------------------
(* TableIndices (src/src/table.rs).                                        *)

\* slice::sort_by is a stable sort: an entry is placed after the entries that
\* do not compare greater than it
RECURSIVE insert_sorted(_, _)
insert_sorted(sorted, x) ==
    IF sorted = <<>> THEN <<x>>
    ELSE IF cmp(Head(sorted).value, x.value) = "Greater" THEN <<x>> \o sorted
    ELSE <<Head(sorted)>> \o insert_sorted(Tail(sorted), x)

RECURSIVE sort_by(_)
sort_by(column_values) ==
    IF column_values = <<>> THEN <<>>
    ELSE insert_sorted(sort_by(SubSeq(column_values, 1, Len(column_values) - 1)),
                       column_values[Len(column_values)])

\* the Index as it would be if the entries were left in the order of the rows
build_index_in_row_order(t, column_index) ==
    [column_name |-> t.columns[column_index + 1].name,
     sorted_column_values |->
        [i \in 1..Len(t.rows) |->
            [value |-> t.rows[i].fields[column_index + 1], row_index |-> i - 1]]]

\* the Index that build_for builds for the column at column_index (0-based);
\* row_index is the row's 0-based position in the table
build_index(t, column_index) ==
    [column_name |-> t.columns[column_index + 1].name,
     sorted_column_values |->
        sort_by([i \in 1..Len(t.rows) |->
                    [value |-> t.rows[i].fields[column_index + 1], row_index |-> i - 1]])]

\* TableIndices::build_for: a row without a field at a column's position is an
\* error; a later column replaces the index of an earlier column of the same name
build_for(t) ==
    IF \E c \in 1..Len(t.columns), i \in 1..Len(t.rows) : Len(t.rows[i].fields) < c
    THEN Err([type |-> "Row does not have column"])
    ELSE Ok([name \in {t.columns[c].name : c \in 1..Len(t.columns)} |->
                LET last == CHOOSE c \in 1..Len(t.columns) :
                                /\ t.columns[c].name = name
                                /\ \A d \in 1..Len(t.columns) : t.columns[d].name = name => d <= c
                IN  build_index(t, last - 1)])

\* Table::find_column_position: the 0-based position of the column of that
\* name, or ColumnNotFound naming the column and listing the table's columns
find_column_position(t, name) ==
    IF \E c \in 1..Len(t.columns) : t.columns[c].name = name
    THEN Ok((CHOOSE c \in 1..Len(t.columns) :
                /\ t.columns[c].name = name
                /\ \A d \in 1..Len(t.columns) : t.columns[d].name = name => c <= d) - 1)
    ELSE Err([type |-> "ColumnNotFound", name |-> name,
              available_columns |-> [c \in 1..Len(t.columns) |-> t.columns[c].name]])

--------------------------------------------------------------------------
(* Query engine (src/src/query_engine.rs).                                 *)

None == [kind |-> "None"]

Some(v) == [kind |-> "Some", value |-> v]

\* a panic unwinds out of execute: the caller gets no Result
Panic(m) == [kind |-> "Panic", message |-> m]

\* slice::binary_search_by on a slice sorted with respect to the comparator;
\* orderings[i + 1] is what the comparator returns for the element at the
\* 0-based position i. When elements compare Equal, the standard library may
\* return the position of any one of them (which one is unspecified), so the
\* operator is the set of the results the call can have; when none does, the
\* result is Err of the position where such an element could be inserted
binary_search_by(orderings) ==
    LET hits == {i \in 0..(Len(orderings) - 1) : orderings[i + 1] = "Equal"}
    IN  IF hits # {} THEN {Ok(i) : i \in hits}
        ELSE {Err(Cardinality({i \in 0..(Len(orderings) - 1) : orderings[i + 1] = "Less"}))}

\* the comparator with < in the place of <=: entries equal to value are not
\* skipped
greater_than_order_strict(value_in_row, value) ==
    IF cmp(value_in_row.value, value) = "Less" THEN "Less" ELSE "Greater"

\* the comparator of filter_using_index_greater_than: entries <= value are Less
greater_than_order(value_in_row, value) ==
    IF cmp(value_in_row.value, value) \in {"Less", "Equal"} THEN "Less" ELSE "Greater"

\* filter_using_index_greater_than as it would be if the row positions were
\* sorted back into table order before they are returned
filter_using_index_greater_than_in_table_order(value, index) ==
    LET s == index.sorted_column_values
        found == {s[i].row_index : i \in {j \in 1..Len(s) : cmp(s[j].value, value) = "Greater"}}
    IN  {Ok([k \in 1..Cardinality(found) |->
                CHOOSE x \in found : Cardinality({y \in found : y < x}) = k - 1])}

\* filter_using_index_greater_than: the row positions of the index entries
\* from the first entry greater than value to the end
filter_using_index_greater_than(value, index) ==
    LET s == index.sorted_column_values
    IN  { LET found_idx == IF search.kind = "Err" /\ search.error < Len(s)
                           THEN Some(search.error) ELSE None
          IN  IF found_idx.kind = "Some"
              THEN Ok([k \in 1..(Len(s) - found_idx.value) |->
                          s[found_idx.value + k].row_index])
              ELSE Ok(<<>>)
        : search \in binary_search_by([i \in 1..Len(s) |-> greater_than_order(s[i], value)]) }

\* the first while loop of filter_using_index_equal_to: the positions pushed
\* while walking left from current_idx
RECURSIVE expand_left(_, _, _)
expand_left(s, value, current_idx) ==
    IF current_idx > 0 /\ s[current_idx + 1].value = value
    THEN <<current_idx>> \o expand_left(s, value, current_idx - 1)
    ELSE <<>>

\* the second while loop of filter_using_index_equal_to
RECURSIVE expand_right(_, _, _)
expand_right(s, value, current_idx) ==
    IF current_idx < Len(s) /\ s[current_idx + 1].value = value
    THEN <<current_idx>> \o expand_right(s, value, current_idx + 1)
    ELSE <<>>

\* filter_using_index_equal_to as it would be if a failed search were taken
\* for a hit at the insertion position (unwrap_or_else(|idx| idx))
filter_using_index_equal_to_at_insertion(value, index) ==
    LET s == index.sorted_column_values
        outcomes(search) ==
            LET found_idx == IF search.kind = "Err" THEN search.error ELSE search.value
            IN  IF found_idx >= Len(s) THEN {Panic("index out of bounds")}
                ELSE IF found_idx = 0
                THEN {Panic("attempt to subtract with overflow"),
                      Panic("index out of bounds")}
                ELSE LET all_matching_idx ==
                            <<found_idx>> \o expand_left(s, value, found_idx - 1)
                                          \o expand_right(s, value, found_idx + 1)
                     IN  {Ok([k \in 1..Len(all_matching_idx) |->
                                s[all_matching_idx[k] + 1].row_index])}
    IN  UNION {outcomes(search) :
                search \in binary_search_by([i \in 1..Len(s) |-> cmp(s[i].value, value)])}

\* filter_using_index_equal_to as it would be without the walk to the right
\* of the hit
filter_using_index_equal_to_left_only(value, index) ==
    LET s == index.sorted_column_values
        outcomes(search) ==
            IF search.kind = "Err" THEN {Ok(<<>>)}
            ELSE IF search.value = 0
            THEN {Panic("attempt to subtract with overflow"),
                  Panic("index out of bounds")}
            ELSE LET found_idx == search.value
                     all_matching_idx ==
                        <<found_idx>> \o expand_left(s, value, found_idx - 1)
                 IN  {Ok([k \in 1..Len(all_matching_idx) |->
                            s[all_matching_idx[k] + 1].row_index])}
    IN  UNION {outcomes(search) :
                search \in binary_search_by([i \in 1..Len(s) |-> cmp(s[i].value, value)])}

\* filter_using_index_equal_to. `found_idx - 1` is computed in usize: with
\* found_idx = 0 it panics when overflow checks are on (debug builds) and wraps
\* to usize::MAX when they are off (release builds), where `current_idx > 0`
\* holds and the read of sorted_column_values[usize::MAX] panics
filter_using_index_equal_to(value, index) ==
    LET s == index.sorted_column_values
        outcomes(search) ==
            IF search.kind = "Err" THEN {Ok(<<>>)}
            ELSE IF search.value = 0
            THEN {Panic("attempt to subtract with overflow"),
                  Panic("index out of bounds")}
            ELSE LET found_idx == search.value
                     all_matching_idx ==
                        <<found_idx>> \o expand_left(s, value, found_idx - 1)
                                      \o expand_right(s, value, found_idx + 1)
                 IN  {Ok([k \in 1..Len(all_matching_idx) |->
                            s[all_matching_idx[k] + 1].row_index])}
    IN  UNION {outcomes(search) :
                search \in binary_search_by([i \in 1..Len(s) |-> cmp(s[i].value, value)])}

\* filter_using_index
filter_using_index(filter, index) ==
    IF filter.filter_type = "Greater"
    THEN filter_using_index_greater_than(filter.value, index)
    ELSE filter_using_index_equal_to(filter.value, index)

\* the match of filter_by_scanning on one row
is_row_matched_by_filter(row, column_position, filter) ==
    IF filter.filter_type = "Greater"
    THEN cmp(row.fields[column_position + 1], filter.value) = "Greater"
    ELSE row.fields[column_position + 1] = filter.value

\* the loop of filter_by_scanning from the row at row_id (0-based) on
RECURSIVE scan_from(_, _, _, _)
scan_from(rows, column_position, filter, row_id) ==
    IF row_id >= Len(rows) THEN <<>>
    ELSE (IF is_row_matched_by_filter(rows[row_id + 1], column_position, filter)
          THEN <<row_id>> ELSE <<>>)
         \o scan_from(rows, column_position, filter, row_id + 1)

\* filter_by_scanning
filter_by_scanning(t, filter) ==
    LET column_position == find_column_position(t.underlying, filter.column_name)
    IN  IF column_position.kind = "Err" THEN column_position
        ELSE Ok(scan_from(t.underlying.rows, column_position.value, filter, 0))

\* apply_filter: the results the call can have
apply_filter(t, filter) ==
    IF filter.column_name \in DOMAIN t.indices
    THEN filter_using_index(filter, t.indices[filter.column_name])
    ELSE {filter_by_scanning(t, filter)}

\* project_rows as it would be if the output row were the whole table row
\* (the requested columns are only checked to exist)
project_rows_all_fields(t, row_ids, column_names) ==
    LET position(i) == find_column_position(t.underlying, column_names[i])
        absent == {i \in 1..Len(column_names) : position(i).kind = "Err"}
    IN  IF absent # {}
        THEN position(CHOOSE i \in absent : \A j \in absent : i <= j)
        ELSE Ok([rows |->
                    [k \in 1..Len(row_ids) |->
                        [fields |-> t.underlying.rows[row_ids[k] + 1].fields]]])

\* project_rows: the column positions are resolved first, the first absent
\* column is the error; then one output row per row id, in the order given
project_rows(t, row_ids, column_names) ==
    LET position(i) == find_column_position(t.underlying, column_names[i])
        absent == {i \in 1..Len(column_names) : position(i).kind = "Err"}
    IN  IF absent # {}
        THEN position(CHOOSE i \in absent : \A j \in absent : i <= j)
        ELSE Ok([rows |->
                    [k \in 1..Len(row_ids) |->
                        [fields |->
                            [i \in 1..Len(column_names) |->
                                t.underlying.rows[row_ids[k] + 1].fields[position(i).value + 1]]]]])

\* execute: the outcomes the call can have, each with the row_ids it computed
execute(q, t) ==
    LET selections ==
            IF q.filter.kind = "Some"
            THEN apply_filter(t, q.filter.value)
            ELSE {Ok([k \in 1..Len(t.underlying.rows) |-> k - 1])}
    IN  { [row_ids |-> row_ids,
           result  |-> IF row_ids.kind = "Ok"
                       THEN project_rows(t, row_ids.value, q.column_names)
                       ELSE row_ids]
        : row_ids \in selections }

--------------------------------------------------------------------------
(* Query (src/src/query.rs). A line is its sequence of tokens, the pieces   *)
(* that input.split_whitespace() yields; positions are 0-based.            *)

\* "PROJECT"
PROJECT == <<80, 82, 79, 74, 69, 67, 84>>

\* "FILTER"
FILTER == <<70, 73, 76, 84, 69, 82>>

\* the characters , " > =
Comma == 44

Quote == 34

\* FilterType::from
FilterType_from(input) ==
    IF input = <<62>> THEN Ok("Greater")
    ELSE IF input = <<61>> THEN Ok("Equal")
    ELSE Err([message |-> "Unknown filter type", input |-> input])

\* str::trim_matches('"'): the quotes at both ends are removed, all of them
RECURSIVE trim_matches_quote(_)
trim_matches_quote(s) ==
    IF s = <<>> THEN s
    ELSE IF Head(s) = Quote THEN trim_matches_quote(Tail(s))
    ELSE IF s[Len(s)] = Quote THEN trim_matches_quote(SubSeq(s, 1, Len(s) - 1))
    ELSE s

\* current_token.ends_with(",")
ends_with_comma(token) == token # <<>> /\ token[Len(token)] = Comma

\* the while loop of parse_projection from current_position on: a token that
\* ends with a comma is a column name and the list goes on, another token is
\* the last column name unless it is FILTER, which ends the list unread
RECURSIVE read_columns(_, _, _)
read_columns(tokens, current_position, column_names) ==
    IF current_position < Len(tokens)
    THEN LET current_token == tokens[current_position + 1]
         IN  IF ends_with_comma(current_token)
             THEN read_columns(tokens, current_position + 1,
                               Append(column_names,
                                      SubSeq(current_token, 1, Len(current_token) - 1)))
             ELSE IF current_token # FILTER
             THEN [column_names |-> Append(column_names, current_token),
                   position |-> current_position + 1]
             ELSE [column_names |-> column_names, position |-> current_position]
    ELSE [column_names |-> column_names, position |-> current_position]

\* Query::parse_projection
parse_projection(tokens, position) ==
    IF position < Len(tokens)
    THEN IF tokens[position + 1] = PROJECT
         THEN LET read == read_columns(tokens, position + 1, <<>>)
              IN  IF read.column_names = <<>>
                  THEN Err([message |-> "Projection column list is empty"])
                  ELSE Ok(read)
         ELSE Err([message |-> "Expected to find keyword PROJECT", position |-> position])
    ELSE Err([message |-> "Could not parse projection part", position |-> position])

\* Query::parse_filter
parse_filter(tokens, position) ==
    IF position < Len(tokens)
    THEN IF tokens[position + 1] = FILTER
         THEN IF position + 1 >= Len(tokens)
              THEN Err([message |-> "Could not find column in the filter",
                        position |-> position + 1])
              ELSE IF position + 2 >= Len(tokens)
              THEN Err([message |-> "Could not find operator '>' or '=' in the filter",
                        position |-> position])
              ELSE LET column == tokens[position + 2]
                       filter_type == FilterType_from(tokens[position + 3])
                   IN  IF filter_type.kind = "Err"
                       THEN Err([message |-> "Unknown filter operator",
                                 position |-> position + 2])
                       ELSE IF position + 3 >= Len(tokens)
                       THEN Err([message |-> "Could not find value to filter by in the filter",
                                 position |-> position + 3])
                       ELSE LET value == parse_value(trim_matches_quote(tokens[position + 4]))
                            IN  IF value.kind = "Err" THEN value
                                ELSE Ok([filter |-> Some([column_name |-> column,
                                                          filter_type |-> filter_type.value,
                                                          value |-> value.value]),
                                         position |-> position + 4])
         ELSE Err([message |-> "Expected to find keyword FILTER", position |-> position])
    ELSE Ok([filter |-> None, position |-> position])

\* Query::parse_query
parse_query(tokens, position) ==
    LET projection == parse_projection(tokens, position)
    IN  IF projection.kind = "Err" THEN projection
        ELSE LET filter == parse_filter(tokens, projection.value.position)
             IN  IF filter.kind = "Err" THEN filter
                 ELSE Ok([query |-> [column_names |-> projection.value.column_names,
                                     filter |-> filter.value.filter],
                          position |-> filter.value.position])

\* Query::parse on the tokens of the input
Query_parse(tokens) ==
    LET parsed_query == parse_query(tokens, 0)
    IN  IF parsed_query.kind = "Err" THEN parsed_query
        ELSE IF parsed_query.value.position = Len(tokens)
        THEN Ok(parsed_query.value.query)
        ELSE Err([message |-> "Unexpected suffix found",
                  position |-> parsed_query.value.position])

--------------------------------------------------------------------------
(* Inputs.                                                                 *)

\* the sequences over S of length lo..hi
SeqsOf(S, lo, hi) == UNION {[1..n -> S] : n \in lo..hi}

\* column names: c1, c2
c1 == <<99, 49>>

c2 == <<99, 50>>

\* header rows: an empty source, one column, two columns
Headers == {<<>>, <<c1>>, <<c1, c2>>}

\* the texts of the fields of the loaded tables: 2, 10, a
FieldTexts == {<<50>>, <<49, 48>>, <<97>>}

\* the texts of the fields at the i-th position of a record: the first column
\* draws from all of FieldTexts, a later column from 2 and a, so that a value is
\* repeated in it as soon as the table has three rows
ColumnTexts(i) == IF i = 1 THEN FieldTexts ELSE {<<50>>, <<97>>}

\* the records of a source that the default csv reader accepts: as many
\* fields as the header h
Records(h) ==
    {r \in [1..Len(h) -> FieldTexts] : \A i \in 1..Len(h) : r[i] \in ColumnTexts(i)}

\* the queries handed to execute: projections over c1 and c2 (c2 is absent from
\* the one-column tables), no filter or a filter on either column
FilterValues == {parse_value(t).value : t \in FieldTexts}

Filters ==
    {None} \cup
    {Some([column_name |-> c, filter_type |-> op, value |-> v]) :
        c \in {c1, c2}, op \in {"Greater", "Equal"}, v \in FilterValues}

Queries ==
    {[column_names |-> cs, filter |-> f] :
        cs \in SeqsOf({c1, c2}, 1, MaxProjection), f \in Filters}

\* the texts of the fields of the sources of the loader's specification: 2, a
\* and the empty field
LoadTexts == {<<50>>, <<97>>, <<>>}

\* the records of a source under the header h: one field less than the header
\* (but at least one), as many, or one more
RaggedRecords(h) ==
    UNION {[1..n -> LoadTexts] : n \in {Len(h) - 1, Len(h), Len(h) + 1} \ {0}}

\* the texts handed to Value::parse_value: the texts over the alphabet up to
\* MaxTextLen characters, and u64::MAX, u64::MAX + 1, both with a leading zero,
\* and a number of 21 digits
BoundaryTexts ==
    { U64MaxDigits,
      SubSeq(U64MaxDigits, 1, 19) \o <<54>>,
      <<48>> \o U64MaxDigits,
      <<48>> \o SubSeq(U64MaxDigits, 1, 19) \o <<54>>,
      U64MaxDigits \o <<48>> }

ParseTexts == SeqsOf(Alphabet, 0, MaxTextLen) \cup BoundaryTexts

--------------------------------------------------------------------------
(* The program: main's run() loads the table, builds the indices and then  *)
(* executes one query after another.                                       *)

NoTable == [columns |-> <<>>, rows |-> <<>>]

NoIndices == <<>>

NoQuery == [kind |-> "None"]

NoOutcome == [kind |-> "None"]

\* IndexedTable { underlying, indices }, as Table::build_indices returns it
IndexedTable == [underlying |-> table, indices |-> indices]

\* run() opens the source: a header row and up to MaxRows records of as many
\* fields (a source without a header row has no record)
Init ==
    /\ pc = "start"
    /\ \E h \in Headers :
        \E n \in 0..(IF h = <<>> THEN 0 ELSE MaxRows) :
            \E rs \in [1..n -> Records(h)] :
                reader = [headers |-> h, records |-> rs]
    /\ table = NoTable
    /\ indices = NoIndices
    /\ query = NoQuery
    /\ outcome = NoOutcome
    /\ text = <<>>
    /\ parsed = NoOutcome
    /\ operands = <<>>
    /\ compared = NoOutcome
    /\ line = <<>>
    /\ query_result = NoOutcome
    /\ served = 0
    /\ report = ""

\* Table::load_from(&mut reader)?
LoadFrom ==
    /\ pc = "start"
    /\ LET loaded == load_from(reader)
       IN  IF loaded.kind = "Ok"
           THEN /\ table' = loaded.value
                /\ pc' = "loaded"
                /\ outcome' = outcome
           ELSE /\ table' = table
                /\ pc' = "failed"
                /\ outcome' = loaded
    /\ UNCHANGED <<reader, indices, query, text, parsed,
                 operands, compared, line, query_result, served, report>>

\* table.build_indices()?
BuildIndices ==
    /\ pc = "loaded"
    /\ LET built == build_for(table)
       IN  IF built.kind = "Ok"
           THEN /\ indices' = built.value
                /\ pc' = "ready"
                /\ outcome' = outcome
           ELSE /\ indices' = indices
                /\ pc' = "failed"
                /\ outcome' = built
    /\ UNCHANGED <<reader, table, query, text, parsed,
                 operands, compared, line, query_result, served, report>>

\* execute(&query, &indexed_table): a panic ends the process
Execute ==
    /\ pc = "ready"
    /\ \E q \in Queries :
        \E o \in execute(q, IndexedTable) :
            /\ query' = q
            /\ outcome' = o
            /\ pc' = IF o.result.kind = "Panic" THEN "panicked" ELSE "answered"
    /\ UNCHANGED <<reader, table, indices, text, parsed,
                 operands, compared, line, query_result, served, report>>

\* the loop of run() goes on to the next query
NextQuery ==
    /\ pc = "answered"
    /\ pc' = "ready"
    /\ query' = NoQuery
    /\ outcome' = NoOutcome
    /\ UNCHANGED <<reader, table, indices, text, parsed,
                 operands, compared, line, query_result, served, report>>

Next == LoadFrom \/ BuildIndices \/ Execute \/ NextQuery

Spec == Init /\ [][Next]_vars

\* The loader on sources whose records may have one field less or more than
\* the header, and empty fields.
InitLoad ==
    /\ pc = "start"
    /\ \E h \in Headers :
        \E n \in 0..(IF h = <<>> THEN 0 ELSE MaxRecords) :
            \E rs \in [1..n -> RaggedRecords(h)] :
                reader = [headers |-> h, records |-> rs]
    /\ table = NoTable
    /\ indices = NoIndices
    /\ query = NoQuery
    /\ outcome = NoOutcome
    /\ text = <<>>
    /\ parsed = NoOutcome
    /\ operands = <<>>
    /\ compared = NoOutcome
    /\ line = <<>>
    /\ query_result = NoOutcome
    /\ served = 0
    /\ report = ""

NextLoad == LoadFrom \/ BuildIndices

SpecLoad == InitLoad /\ [][NextLoad]_vars

\* Value::parse_value on one text.
InitParse ==
    /\ pc = "parse"
    /\ text \in ParseTexts
    /\ reader = [headers |-> <<>>, records |-> <<>>]
    /\ table = NoTable
    /\ indices = NoIndices
    /\ query = NoQuery
    /\ outcome = NoOutcome
    /\ parsed = NoOutcome
    /\ operands = <<>>
    /\ compared = NoOutcome
    /\ line = <<>>
    /\ query_result = NoOutcome
    /\ served = 0
    /\ report = ""

ParseValue ==
    /\ pc = "parse"
    /\ parsed' = parse_value(text)
    /\ pc' = "parsed"
    /\ UNCHANGED <<reader, table, indices, query, outcome, text,
                 operands, compared, line, query_result, served, report>>

NextParse == ParseValue

SpecParse == InitParse /\ [][NextParse]_vars

\* The session of run(): after the load and the build of the indices, the loop
\* reads a line, ends on an exit command, and otherwise parses the line as a
\* query, executes it and writes the rows or the error.
\* EXIT_COMMANDS: exit, quit, q
EXIT_COMMANDS == {<<101, 120, 105, 116>>, <<113, 117, 105, 116>>, <<113>>}

\* EXIT_COMMANDS.contains(&input.trim()): the trimmed line is a command when
\* the line's only token is
is_exit_command(tokens) == Len(tokens) = 1 /\ tokens[1] \in EXIT_COMMANDS

\* the lines typed into the session: the exit commands, the empty line,
\* queries over c1 and c2 (no filter, Greater, Equal on an Integer and on a
\* quoted Text) and lines that do not parse
SessionLines ==
    {<<e>> : e \in EXIT_COMMANDS} \cup
    { <<>>,
      <<PROJECT, c1>>,
      <<PROJECT, c1 \o <<Comma>>, c2>>,
      <<PROJECT, c1, FILTER, c1, <<62>>, <<50>>>>,
      <<PROJECT, c1, FILTER, c1, <<61>>, <<50>>>>,
      <<PROJECT, c2, FILTER, c1, <<61>>, <<Quote, 97, Quote>>>>,
      <<PROJECT, c1, FILTER, c1, <<60>>, <<50>>>>,
      <<c1>> }

\* print!("> "); stdin.read_line(&mut input): the locals of the previous
\* iteration are gone
ReadLine ==
    /\ pc = "ready"
    /\ served < MaxServed
    /\ line' \in SessionLines
    /\ pc' = "read"
    /\ query' = NoQuery
    /\ outcome' = NoOutcome
    /\ query_result' = NoOutcome
    /\ report' = ""
    /\ UNCHANGED <<reader, table, indices, text, parsed, operands, compared, served>>

\* the body of the loop as it would be if execute took the index it searched
\* out of the table
HandleLine_consuming_index ==
    /\ pc = "read"
    /\ IF is_exit_command(line)
       THEN /\ pc' = "exited"
            /\ UNCHANGED <<query, outcome, query_result, report, served, indices>>
       ELSE /\ query_result' = Query_parse(line)
            /\ IF query_result'.kind = "Err"
               THEN /\ report' = "Query parsing error"
                    /\ pc' = "ready"
                    /\ UNCHANGED <<query, outcome, served, indices>>
               ELSE \E o \in execute(query_result'.value, IndexedTable) :
                        /\ query' = query_result'.value
                        /\ outcome' = o
                        /\ served' = served + 1
                        /\ indices' =
                                IF query'.filter.kind = "Some"
                                THEN [name \in DOMAIN indices \ {query'.filter.value.column_name}
                                        |-> indices[name]]
                                ELSE indices
                        /\ report' = CASE o.result.kind = "Ok" -> "rows"
                                        [] o.result.kind = "Err" -> "Query execution error"
                                        [] o.result.kind = "Panic" -> "panic"
                        /\ pc' = IF o.result.kind = "Panic" THEN "panicked" ELSE "ready"
    /\ UNCHANGED <<reader, table, text, parsed, operands, compared, line>>

\* the body of the loop after read_line: an exit command ends the loop;
\* another line is parsed and executed, the rows or the error are written and
\* the loop goes on; a panic of execute ends the process
HandleLine ==
    /\ pc = "read"
    /\ IF is_exit_command(line)
       THEN /\ pc' = "exited"
            /\ UNCHANGED <<query, outcome, query_result, report, served>>
       ELSE /\ query_result' = Query_parse(line)
            /\ IF query_result'.kind = "Err"
               THEN /\ report' = "Query parsing error"
                    /\ pc' = "ready"
                    /\ UNCHANGED <<query, outcome, served>>
               ELSE \E o \in execute(query_result'.value, IndexedTable) :
                        /\ query' = query_result'.value
                        /\ outcome' = o
                        /\ served' = served + 1
                        /\ report' = CASE o.result.kind = "Ok" -> "rows"
                                        [] o.result.kind = "Err" -> "Query execution error"
                                        [] o.result.kind = "Panic" -> "panic"
                        /\ pc' = IF o.result.kind = "Panic" THEN "panicked" ELSE "ready"
    /\ UNCHANGED <<reader, table, indices, text, parsed, operands, compared, line>>

NextSession == LoadFrom \/ BuildIndices \/ ReadLine \/ HandleLine

SpecSession == Init /\ [][NextSession]_vars

\* Query::parse on one line. The lines are put together from what may stand
\* before the projection list, a list of up to MaxProjection column tokens
\* (c1, c2, either with a trailing comma, and the lone comma), a filter
\* clause cut off after any of its tokens, and a token after the query.
LeadingTokens == {<<>>, <<PROJECT>>, <<FILTER>>}

ColumnTokens == {c1, c2, c1 \o <<Comma>>, c2 \o <<Comma>>, <<Comma>>}

\* the operator tokens > = < and the value tokens 2, "a", ""
OperatorTokens == {<<62>>, <<61>>, <<60>>}

ValueTokens == {<<50>>, <<Quote, 97, Quote>>, <<Quote, Quote>>}

FilterClauses ==
    {<<>>, <<FILTER>>, <<FILTER, c1>>}
        \cup {<<FILTER, c1, op>> : op \in OperatorTokens}
        \cup {<<FILTER, c1, op, v>> : op \in OperatorTokens, v \in ValueTokens}

TrailingTokens == {<<>>, <<c2>>}

QueryLines ==
    {l \o cs \o f \o t :
        l \in LeadingTokens, cs \in SeqsOf(ColumnTokens, 0, MaxProjection),
        f \in FilterClauses, t \in TrailingTokens}

InitQuery ==
    /\ pc = "query"
    /\ line \in QueryLines
    /\ query_result = NoOutcome
    /\ reader = [headers |-> <<>>, records |-> <<>>]
    /\ table = NoTable
    /\ indices = NoIndices
    /\ query = NoQuery
    /\ outcome = NoOutcome
    /\ text = <<>>
    /\ parsed = NoOutcome
    /\ operands = <<>>
    /\ compared = NoOutcome
    /\ served = 0
    /\ report = ""

\* Query::parse(&input)
ParseQuery ==
    /\ pc = "query"
    /\ query_result' = Query_parse(line)
    /\ pc' = "queried"
    /\ UNCHANGED <<reader, table, indices, query, outcome, text, parsed,
                   operands, compared, line, served, report>>

NextQueryParse == ParseQuery

SpecQuery == InitQuery /\ [][NextQueryParse]_vars

\* Value's cmp on three Values, as sort_by and the binary searches call it.
\* The operands' characters: 1 9 a
CompareAlphabet == {49, 57, 97}

\* the Integer and Text values of up to MaxOperandLen characters; a Text may
\* be empty or hold digits only (Value::Text is a public constructor)
CompareValues ==
    {Integer(s) : s \in SeqsOf(CompareAlphabet \cap (48..57), 1, MaxOperandLen)}
        \cup {Text(s) : s \in SeqsOf(CompareAlphabet, 0, MaxOperandLen)}

InitCompare ==
    /\ pc = "compare"
    /\ operands \in CompareValues \X CompareValues \X CompareValues
    /\ compared = NoOutcome
    /\ reader = [headers |-> <<>>, records |-> <<>>]
    /\ table = NoTable
    /\ indices = NoIndices
    /\ query = NoQuery
    /\ outcome = NoOutcome
    /\ text = <<>>
    /\ parsed = NoOutcome
    /\ line = <<>>
    /\ query_result = NoOutcome
    /\ served = 0
    /\ report = ""

\* a.cmp(&b), b.cmp(&a), b.cmp(&c) and a.cmp(&c) of the operands (a, b, c)
Compare ==
    /\ pc = "compare"
    /\ compared' = [ab |-> cmp(operands[1], operands[2]),
                    ba |-> cmp(operands[2], operands[1]),
                    bc |-> cmp(operands[2], operands[3]),
                    ac |-> cmp(operands[1], operands[3])]
    /\ pc' = "compared"
    /\ UNCHANGED <<reader, table, indices, query, outcome, text, parsed,
                   operands, line, query_result, served, report>>

NextCompare == Compare

SpecCompare == InitCompare /\ [][NextCompare]_vars

--------------------------------------------------------------------------
(* What the claims speak of.                                               *)

\* execute was called and has returned or panicked
Executed == pc \in {"answered", "panicked"}

\* execute was called with a filter of that operator
Filtered(op) ==
    /\ Executed
    /\ query.filter.kind = "Some"
    /\ query.filter.value.filter_type = op

HasColumn(name) == \E c \in 1..Len(table.columns) : table.columns[c].name = name

\* the position (from 1) of the column of that name in the table
ColumnOf(name) == CHOOSE c \in 1..Len(table.columns) : table.columns[c].name = name

FilterColumnExists == HasColumn(query.filter.value.column_name)

ProjectionExists ==
    \A i \in 1..Len(query.column_names) : HasColumn(query.column_names[i])

\* the field of the row at row_id (from 0) in the column of that name
FieldOf(row_id, name) == table.rows[row_id + 1].fields[ColumnOf(name)]

\* the rows (from 0) whose field in the filter column is equal to, or greater
\* than, the filter value
RowsWhere(op) ==
    {r \in 0..(Len(table.rows) - 1) :
        LET field == FieldOf(r, query.filter.value.column_name)
        IN  IF op = "Equal" THEN field = query.filter.value.value
            ELSE cmp(field, query.filter.value.value) = "Greater"}

Range(s) == {s[k] : k \in 1..Len(s)}

NoDuplicates(s) == \A i, j \in 1..Len(s) : i # j => s[i] # s[j]

\* the output row of the row at row_id: its fields at the requested columns,
\* in the requested order
Projection(row_id) ==
    [fields |-> [i \in 1..Len(query.column_names) |->
                    FieldOf(row_id, query.column_names[i])]]

\* execute returned the projections of the rows ids, in that order
ReturnsRows(ids) ==
    /\ outcome.result.kind = "Ok"
    /\ outcome.result.value = [rows |-> [k \in 1..Len(ids) |-> Projection(ids[k])]]

--------------------------------------------------------------------------
(* Claims about execute (specification Spec).                              *)

\* C1: execute with an Equal filter on a column of the table (and a projection
\* of existing columns) returns exactly the rows whose field in that column
\* equals the filter value: each of them once, and no other row.
C1_EqualReturnsExactlyTheEqualRows ==
    (Filtered("Equal") /\ FilterColumnExists /\ ProjectionExists) =>
        /\ outcome.row_ids.kind = "Ok"
        /\ NoDuplicates(outcome.row_ids.value)
        /\ Range(outcome.row_ids.value) = RowsWhere("Equal")
        /\ ReturnsRows(outcome.row_ids.value)

\* C2: execute with a Greater filter on a column of the table selects exactly
\* the rows whose field in that column compares greater than the filter value
\* under Value's ordering, each once, and none whose field equals it; with a
\* projection of existing columns it returns these rows.
C2_GreaterReturnsExactlyTheGreaterRows ==
    (Filtered("Greater") /\ FilterColumnExists) =>
        /\ outcome.row_ids.kind = "Ok"
        /\ NoDuplicates(outcome.row_ids.value)
        /\ Range(outcome.row_ids.value) = RowsWhere("Greater")
        /\ \A k \in 1..Len(outcome.row_ids.value) :
                FieldOf(outcome.row_ids.value[k], query.filter.value.column_name)
                    # query.filter.value.value
        /\ ProjectionExists => ReturnsRows(outcome.row_ids.value)

\* a Greater filter whose value is held by several rows and exceeded by
\* another, which is returned
C2_Witness ==
    /\ Filtered("Greater") /\ FilterColumnExists /\ ProjectionExists
    /\ Cardinality({r \in 0..(Len(table.rows) - 1) :
            FieldOf(r, query.filter.value.column_name) = query.filter.value.value}) >= 2
    /\ outcome.result.kind = "Ok"
    /\ Len(outcome.result.value.rows) >= 1

\* C3: for either operator and a filter on a column of the table, the row
\* positions of the index path (the ones execute computed) and of the
\* full-scan path are equal as sets, and the scan yields them in table order.
C3_IndexPathAgreesWithScanPath ==
    (Executed /\ query.filter.kind = "Some" /\ FilterColumnExists) =>
        LET scan == filter_by_scanning(IndexedTable, query.filter.value)
        IN  /\ scan.kind = "Ok"
            /\ \A k \in 1..(Len(scan.value) - 1) : scan.value[k] < scan.value[k + 1]
            /\ outcome.row_ids.kind = "Ok"
            /\ Range(outcome.row_ids.value) = Range(scan.value)

\* C4: execute without a filter and with a projection of existing columns
\* returns one output row per table row, in table order, and output row i
\* holds the fields of table row i at the requested columns, in the requested
\* order.
C4_NoFilterProjectsEveryRowInTableOrder ==
    (Executed /\ query.filter.kind = "None" /\ ProjectionExists) =>
        /\ outcome.result.kind = "Ok"
        /\ Len(outcome.result.value.rows) = Len(table.rows)
        /\ \A i \in 1..Len(table.rows) :
            /\ Len(outcome.result.value.rows[i].fields) = Len(query.column_names)
            /\ \A j \in 1..Len(query.column_names) :
                outcome.result.value.rows[i].fields[j]
                    = table.rows[i].fields[ColumnOf(query.column_names[j])]

\* a projection that swaps the two columns of a table of several different rows
C4_Witness ==
    /\ Executed /\ query.filter.kind = "None"
    /\ query.column_names = <<c2, c1>>
    /\ ProjectionExists
    /\ Len(table.rows) >= 2
    /\ table.rows[1] # table.rows[2]
    /\ outcome.result.kind = "Ok"
    /\ outcome.result.value.rows[1].fields = <<table.rows[1].fields[2], table.rows[1].fields[1]>>
    /\ table.rows[1].fields[1] # table.rows[1].fields[2]

\* C5: when the filter column or a projection column is absent from the table,
\* execute returns a ColumnNotFound error that names an absent column of the
\* query and lists the table's columns in declaration order.
C5_AbsentColumnIsColumnNotFound ==
    (Executed /\ (~ProjectionExists \/ (query.filter.kind = "Some" /\ ~FilterColumnExists))) =>
        /\ outcome.result.kind = "Err"
        /\ outcome.result.error.type = "ColumnNotFound"
        /\ ~HasColumn(outcome.result.error.name)
        /\ \/ outcome.result.error.name \in Range(query.column_names)
           \/ /\ query.filter.kind = "Some"
              /\ outcome.result.error.name = query.filter.value.column_name
        /\ outcome.result.error.available_columns
                = [c \in 1..Len(table.columns) |-> table.columns[c].name]

\* C6: when the columns of the query exist and its filter matches no row,
\* execute succeeds with a result set of zero rows.
C6_NoMatchIsAnEmptyResultSet ==
    \A op \in {"Greater", "Equal"} :
        (Filtered(op) /\ FilterColumnExists /\ ProjectionExists /\ RowsWhere(op) = {}) =>
            outcome.result = Ok([rows |-> <<>>])

\* an Equal filter that matches none of the rows of a table of several rows
C6_Witness ==
    /\ Filtered("Equal") /\ FilterColumnExists /\ ProjectionExists
    /\ Len(table.rows) >= 2
    /\ RowsWhere("Equal") = {}
    /\ outcome.result.kind = "Ok"
    /\ outcome.result.value.rows = <<>>

\* C7: with a Greater filter the selected rows are the row positions of the
\* index entries from the first entry greater than the filter value to the
\* end, in index order: the fields of consecutive selected rows in the filter
\* column do not decrease, and output row k is the projection of the k-th of them.
C7_GreaterReturnsTheIndexSuffixInIndexOrder ==
    (Filtered("Greater") /\ FilterColumnExists) =>
        LET column == query.filter.value.column_name
            s == indices[column].sorted_column_values
            greater == {i \in 1..Len(s) : cmp(s[i].value, query.filter.value.value) = "Greater"}
            first == IF greater = {} THEN Len(s) + 1
                     ELSE CHOOSE i \in greater : \A j \in greater : i <= j
            ids == outcome.row_ids.value
        IN  /\ outcome.row_ids.kind = "Ok"
            /\ ids = [k \in 1..(Len(s) - first + 1) |-> s[first + k - 1].row_index]
            /\ \A k \in 1..(Len(ids) - 1) :
                    cmp(FieldOf(ids[k], column), FieldOf(ids[k + 1], column)) # "Greater"
            /\ ProjectionExists => ReturnsRows(ids)

\* a Greater filter that returns several rows, not in table order
C7_Witness ==
    /\ Filtered("Greater") /\ FilterColumnExists /\ ProjectionExists
    /\ outcome.result.kind = "Ok"
    /\ Len(outcome.result.value.rows) >= 2
    /\ \E k \in 1..(Len(outcome.row_ids.value) - 1) :
            outcome.row_ids.value[k] > outcome.row_ids.value[k + 1]

--------------------------------------------------------------------------
(* Claims about Value::parse_value (specification SpecParse).              *)

\* the text is not empty and all its characters are ASCII decimal digits
IsDigits(s) == s # <<>> /\ \A i \in 1..Len(s) : s[i] \in 48..57

\* d is the decimal numeral of the number that the digits s denote: s without
\* its leading zeros
NumeralOf(s, d) ==
    /\ d # <<>>
    /\ Len(d) = 1 \/ d[1] # 48
    /\ \E k \in 0..(Len(s) - 1) : s = [i \in 1..k |-> 48] \o d

\* the number that the digits s denote is at most u64::MAX
FitsU64(s) == \E k \in 1..Len(s) :
    /\ NumeralOf(s, SubSeq(s, k, Len(s)))
    /\ u64_cmp(SubSeq(s, k, Len(s)), U64MaxDigits) # "Greater"

\* C8: parse_value returns an Integer only for a non-empty text of decimal
\* digits, and for every such text (whose number fits 64 bits); every other
\* text, the empty one included, is returned as Text holding the text, without
\* a failure.
C8_IntegerIffNonEmptyDigits ==
    pc = "parsed" =>
        /\ (parsed.kind = "Ok" /\ parsed.value.tag = "Integer") => IsDigits(text)
        /\ (IsDigits(text) /\ FitsU64(text)) =>
                (parsed.kind = "Ok" /\ parsed.value.tag = "Integer")
        /\ ~IsDigits(text) => (parsed.kind = "Ok" /\ parsed.value = Text(text))

HasLeadingZero(s) == IsDigits(s) /\ Len(s) >= 2 /\ s[1] = 48

\* C9, as claimed: parse_value fails on every text of decimal digits that has
\* a leading zero.
C9_LeadingZeroFails ==
    (pc = "parsed" /\ HasLeadingZero(text)) => parsed.kind = "Err"

\* C9, amended: on a text of decimal digits with a leading zero, parse_value
\* returns the Integer of the number the digits denote (007 is 7, 00 is 0)
\* when that number is at most u64::MAX, and fails only when it is greater.
C9_LeadingZeroParsesUnlessTooLarge ==
    (pc = "parsed" /\ HasLeadingZero(text)) =>
        IF FitsU64(text)
        THEN /\ parsed.kind = "Ok"
             /\ parsed.value.tag = "Integer"
             /\ NumeralOf(text, parsed.value.v)
        ELSE parsed.kind = "Err"

\* 009 parsed to the Integer 9
C9_Witness ==
    /\ pc = "parsed"
    /\ text = <<48, 48, 57>>
    /\ parsed = Ok(Integer(<<57>>))

--------------------------------------------------------------------------
(* Claims about Table::load_from (specification SpecLoad).                 *)

\* C10: load_from fails when a record has fewer or more fields than the header
\* has columns, and in every loaded table each row has as many fields as the
\* table has columns.
C10_FieldCountMismatchFailsTheLoad ==
    /\ (pc # "start" /\ \E i \in 1..Len(reader.records) :
                            Len(reader.records[i]) # Len(reader.headers))
            => (pc = "failed" /\ outcome.kind = "Err")
    /\ pc \in {"loaded", "ready"} =>
            /\ Len(table.columns) = Len(reader.headers)
            /\ Len(table.rows) = Len(reader.records)
            /\ \A i \in 1..Len(table.rows) :
                    Len(table.rows[i].fields) = Len(table.columns)

\* a load that failed on a source whose fields all parse and whose only
\* irregular record has one field more than the header
C10_Witness ==
    /\ pc = "failed"
    /\ outcome.kind = "Err"
    /\ \A i \in 1..Len(reader.records) :
            /\ Len(reader.records[i]) >= Len(reader.headers)
            /\ \A j \in 1..Len(reader.records[i]) : reader.records[i][j] # <<>>
    /\ \E i \in 1..Len(reader.records) : Len(reader.records[i]) > Len(reader.headers)

--------------------------------------------------------------------------
(* Claims about the loaded table and its indices (specification Spec).     *)

Loaded == pc \in {"loaded", "ready", "answered", "panicked"}

\* C11: after load a column's type is Integer if and only if every row holds
\* an Integer value at the column's position, and Text otherwise; each field
\* keeps the variant its own text parses to, whatever the column's type.
C11_ColumnTypeIsIntegerIffEveryFieldIs ==
    Loaded =>
        /\ \A c \in 1..Len(table.columns) :
            /\ table.columns[c].column_type \in {"Integer", "Text"}
            /\ table.columns[c].column_type = "Integer"
                    <=> \A i \in 1..Len(table.rows) :
                            table.rows[i].fields[c].tag = "Integer"
        /\ \A i \in 1..Len(table.rows) : \A c \in 1..Len(table.rows[i].fields) :
                Ok(table.rows[i].fields[c]) = parse_value(reader.records[i][c])

\* a loaded table with a Text column that holds an Integer field next to a
\* Text field
C11_Witness ==
    /\ Loaded
    /\ \E c \in 1..Len(table.columns) :
        /\ table.columns[c].column_type = "Text"
        /\ \E i \in 1..Len(table.rows) : table.rows[i].fields[c] = Integer(<<49, 48>>)
        /\ \E i \in 1..Len(table.rows) : table.rows[i].fields[c].tag = "Text"

--------------------------------------------------------------------------
(* Claims about Value's ordering (specification SpecCompare).              *)

\* the number that decimal digits denote
RECURSIVE NumberOf(_)
NumberOf(digits) ==
    IF digits = <<>> THEN 0
    ELSE 10 * NumberOf(SubSeq(digits, 1, Len(digits) - 1)) + (digits[Len(digits)] - 48)

\* x precedes y lexicographically: at the first position where they differ x
\* has the smaller character, or x ends there and y does not
LexicographicallyLess(x, y) ==
    \E k \in 0..Len(x) :
        /\ k <= Len(y)
        /\ SubSeq(x, 1, k) = SubSeq(y, 1, k)
        /\ IF k = Len(x) THEN k < Len(y) ELSE k < Len(y) /\ x[k + 1] < y[k + 1]

Reverse(ordering) ==
    CASE ordering = "Less" -> "Greater"
      [] ordering = "Greater" -> "Less"
      [] ordering = "Equal" -> "Equal"

\* C12: cmp is a total order on the Integer and Text values: it returns one
\* of Less, Equal, Greater, cmp(b, a) is the reverse of cmp(a, b), it is
\* transitive, it is Equal exactly for structurally equal values; Integers
\* compare by magnitude, Texts lexicographically, and every Integer is Less
\* than every Text.
C12_CmpIsATotalOrder ==
    pc = "compared" =>
        LET a == operands[1]
            b == operands[2]
            c == operands[3]
        IN  /\ compared.ab \in {"Less", "Equal", "Greater"}
            /\ compared.ba = Reverse(compared.ab)
            /\ (compared.ab = "Equal") <=> (a = b)
            /\ (compared.ab # "Greater" /\ compared.bc # "Greater")
                    => compared.ac # "Greater"
            /\ (compared.ab = "Less" /\ compared.bc # "Greater")
                    => compared.ac = "Less"
            /\ (compared.ab # "Greater" /\ compared.bc = "Less")
                    => compared.ac = "Less"
            /\ (a.tag = "Integer" /\ b.tag = "Integer")
                    => ((compared.ab = "Less") <=> (NumberOf(a.v) < NumberOf(b.v)))
            /\ (a.tag = "Text" /\ b.tag = "Text")
                    => ((compared.ab = "Less") <=> LexicographicallyLess(a.v, b.v))
            /\ (a.tag = "Integer" /\ b.tag = "Text") => compared.ab = "Less"

\* 9 before 11 by magnitude, 11 before the Text "1" across the variants
C12_Witness ==
    /\ pc = "compared"
    /\ operands = <<Integer(<<57>>), Integer(<<49, 49>>), Text(<<49>>)>>
    /\ compared = [ab |-> "Less", ba |-> "Greater", bc |-> "Less", ac |-> "Less"]

--------------------------------------------------------------------------
(* Claims about the session (specification SpecSession).                   *)

InSession == pc \in {"ready", "read", "exited", "panicked"}

\* the line was a query that failed: it did not parse, or execute returned an
\* error or panicked
QueryFailed ==
    \/ query_result.kind = "Err"
    \/ (query_result.kind = "Ok" /\ outcome # NoOutcome /\ outcome.result.kind # "Ok")

\* C13: execute never changes the table or its indices: at any point of the
\* session, after any number of queries, the table and every column index
\* are what load_from and the build of the indices made of the source, and
\* the outcome of the last query is one that execute gives for it on that
\* freshly built table.
C13_ExecuteLeavesTheTableAndIndicesAlone ==
    InSession =>
        LET loaded == load_from(reader).value
            built == build_for(loaded).value
        IN  /\ table = loaded
            /\ indices = built
            /\ outcome # NoOutcome
                    => outcome \in execute(query, [underlying |-> loaded, indices |-> built])

\* a query with a filter on an indexed column that returned rows after an
\* earlier query had been executed in the session
C13_Witness ==
    /\ pc = "ready"
    /\ served >= 2
    /\ query.filter.kind = "Some"
    /\ query.filter.value.column_name \in DOMAIN indices
    /\ outcome.result.kind = "Ok"
    /\ outcome.result.value.rows # <<>>

\* C14: a line that fails to parse or fails to execute does not end the
\* session: its failure is reported and the loop is back at reading a line;
\* the session has ended only after an exit command.
C14_FailedQueryDoesNotEndTheSession ==
    /\ (InSession /\ pc # "read" /\ QueryFailed)
            => (pc = "ready"
                /\ report \in {"Query parsing error", "Query execution error"})
    /\ pc \in {"exited", "panicked"} => is_exit_command(line)

--------------------------------------------------------------------------
(* Claims about Query::parse (specification SpecQuery).                    *)

\* a token of the projection list that names a column and is followed by
\* another: the name, not empty, and a comma
IsColumnThenComma(token) == Len(token) > 1 /\ token[Len(token)] = Comma

\* the token that names the last column of the projection list
IsLastColumn(token) == token # <<>> /\ token[Len(token)] # Comma /\ token # FILTER

\* tokens match PROJECT <col>[, <col>...] [FILTER <col> (> | =) <value>] with
\* n columns; a column of the filter and a value are any token
MatchesGrammarWith(tokens, n) ==
    /\ Len(tokens) >= n + 1
    /\ tokens[1] = PROJECT
    /\ \A i \in 2..n : IsColumnThenComma(tokens[i])
    /\ IsLastColumn(tokens[n + 1])
    /\ \/ Len(tokens) = n + 1
       \/ /\ Len(tokens) = n + 5
          /\ tokens[n + 2] = FILTER
          /\ tokens[n + 4] \in {<<62>>, <<61>>}

MatchesGrammar(tokens) == \E n \in 1..Len(tokens) : MatchesGrammarWith(tokens, n)

\* C15: Query::parse succeeds exactly on the lines whose tokens match
\* PROJECT <col>[, <col>...] [FILTER <col> (> | =) <value>] with at least one
\* column; it fails when the first token is not PROJECT and when no column
\* name follows PROJECT.
C15_ParseSucceedsExactlyOnTheGrammar ==
    pc = "queried" =>
        /\ (query_result.kind = "Ok") <=> MatchesGrammar(line)
        /\ (line = <<>> \/ line[1] # PROJECT) => query_result.kind = "Err"
        /\ (Len(line) = 1 \/ (Len(line) > 1 /\ line[2] = FILTER))
                => query_result.kind = "Err"

--------------------------------------------------------------------------
(* Claims about the indices and the equal-to lookup (specification Spec).  *)

Indexed == pc \in {"ready", "answered", "panicked"}

\* the entries of the index of the column of that name
EntriesOf(name) == indices[name].sorted_column_values

\* the index of the filter's column, and the index positions (from 0) of the
\* row positions that the selection returned, in the order returned
FilterIndex == EntriesOf(query.filter.value.column_name)

PositionOf(row_id) ==
    CHOOSE p \in 0..(Len(FilterIndex) - 1) : FilterIndex[p + 1].row_index = row_id

ReturnedPositions ==
    [k \in 1..Len(outcome.row_ids.value) |-> PositionOf(outcome.row_ids.value[k])]

\* C16: an equal-to lookup in the index of a column of the table never reads
\* outside the index and never takes a position below zero: it does not
\* panic, and returns a list of row positions of the table.
C16_EqualLookupStaysWithinTheIndex ==
    (Filtered("Equal") /\ FilterColumnExists) =>
        /\ outcome.row_ids \notin {Panic("attempt to subtract with overflow"),
                                    Panic("index out of bounds")}
        /\ outcome.row_ids.kind = "Ok"
        /\ Range(outcome.row_ids.value) \subseteq 0..(Len(table.rows) - 1)

\* C17: once the indices are built every column of the table has an index;
\* the index has one entry per row, each holding the row's field at the
\* column, and the entries are in ascending order of Value's cmp.
C17_EveryColumnHasASortedIndexOfAllRows ==
    Indexed =>
        /\ DOMAIN indices = {table.columns[c].name : c \in 1..Len(table.columns)}
        /\ \A c \in 1..Len(table.columns) :
            LET entries == EntriesOf(table.columns[c].name)
            IN  /\ indices[table.columns[c].name].column_name = table.columns[c].name
                /\ Len(entries) = Len(table.rows)
                /\ {entries[k].row_index : k \in 1..Len(entries)}
                        = 0..(Len(table.rows) - 1)
                /\ \A k \in 1..Len(entries) :
                        entries[k].value = table.rows[entries[k].row_index + 1].fields[c]
                /\ \A k \in 1..(Len(entries) - 1) :
                        cmp(entries[k].value, entries[k + 1].value) # "Greater"

\* an index over Integer and Text fields whose first entry is the last row
C17_Witness ==
    /\ Indexed
    /\ \E c \in 1..Len(table.columns) :
        LET entries == EntriesOf(table.columns[c].name)
        IN  /\ Len(entries) = 3
            /\ entries[1].row_index = 2
            /\ entries[1].value.tag = "Integer"
            /\ entries[3].value.tag = "Text"

==========================================================================
